---------------------------- MODULE Spec2Model ----------------------------
(***************************************************************************)
(* A model of the TariffScraper repository: the Canadian table extractor   *)
(* (src/src/tariff_scraper/scrapers/canadian.py, base.py), and the Dataset *)
(* and the collection manager of src/scrape.py.                            *)
(*                                                                         *)
(* Strings are sequences of one-character strings, so that strip, join and *)
(* the text extraction are computed character by character.  The element   *)
(* tree built by BeautifulSoup is modelled at the boundary the code uses:  *)
(* a page is what soup.find('table'), table.find('tbody') and              *)
(* tbody.find_all('tr') return, a row is what row.find('th') and           *)
(* row.find_all('td') return, a cell is its descendant text nodes and what *)
(* cell.find_all('li') returns.                                            *)
(***************************************************************************)
EXTENDS Integers, Sequences, FiniteSets, TLC

VARIABLES
    cell,        \* SpecText: the element a text rule is applied to
    text_op,     \* SpecText: the rule applied last
    text_out,    \* SpecText: the string that rule returned
    data,        \* SpecParse: self.data of the extractor instance
    pc,          \* SpecParse: "idle", or "rows" inside parse_data's loop
    html,        \* SpecParse: html_content of the current (or last) call
    row_i,       \* SpecParse: the loop's position in tbody.find_all('tr')
    ret,         \* SpecParse: what the last parse_data call returned
    returned,    \* SpecParse: some parse_data call on the instance returned
    prev_data,   \* SpecParse: self.data when the current call was entered
    same_html,   \* SpecParse: the call got the page the call before it got
    df,          \* TariffData.df: none, or the rows of the DataFrame
    clock,       \* the wall clock datetime.now() reads
    calls,       \* SpecDataset: the add_data calls made, in order
    op,          \* the Dataset or manager operation that ran last
    result,      \* what get_statistics returned or raised, if it ran last
    mpc,         \* SpecManager: main's position: "scraping", "saved", "crashed"
    target,      \* SpecManager: the config main's loop handled last
    results,     \* SpecManager: what scrape_country returned, per target
    raised,      \* SpecManager: the exception the last call let through
    save_ret,    \* SpecManager: what save_data returned
    files        \* SpecManager: the output files written

textVars == <<cell, text_op, text_out>>
parseVars ==
    <<data, pc, html, row_i, ret, returned, prev_data, same_html>>
datasetVars == <<df, clock, calls, op, result>>
managerVars == <<mpc, target, results, raised, save_ret, files>>
vars == <<textVars, parseVars, datasetVars, managerVars>>

---------------------------------------------------------------------------
(* Bounds of the text model *)

MaxStrLen == 4
MaxNodes == 2
MaxItems == 2
(* Bounds of the extractor model: rows of a body, records self.data holds *)
MaxRows == 2
MaxData == 3
(* Bounds of the Dataset and manager models: records of a batch, add_data
   calls, targets of a run *)
MaxBatch == 2
MaxAdds == 2
MaxTargets == 3

(* The characters text nodes are made of, and the ones str.strip() removes *)
Alphabet == {"a", " "}
Whitespace == {" ", "\n", "\t"}

SeqsUpTo(S, n) == UNION {[1..k -> S] : k \in 0..n}
Strings == SeqsUpTo(Alphabet, MaxStrLen)

---------------------------------------------------------------------------
(* Text extraction: Tag.get_text(separator, strip=True) *)

RECURSIVE lstrip(_)
lstrip(s) ==
    IF s # <<>> /\ Head(s) \in Whitespace THEN lstrip(Tail(s)) ELSE s

RECURSIVE rstrip(_)
rstrip(s) ==
    IF s # <<>> /\ s[Len(s)] \in Whitespace
    THEN rstrip(SubSeq(s, 1, Len(s) - 1))
    ELSE s

strip(s) == rstrip(lstrip(s))

RECURSIVE join(_, _)
join(sep, ss) ==
    IF ss = <<>> THEN <<>>
    ELSE IF Len(ss) = 1 THEN ss[1]
    ELSE ss[1] \o sep \o join(sep, Tail(ss))

(* the text nodes get_text joins: each stripped, the empty ones left out *)
RECURSIVE all_strings(_)
all_strings(ss) ==
    IF ss = <<>> THEN <<>>
    ELSE LET t == strip(Head(ss))
         IN  (IF t = <<>> THEN <<>> ELSE <<t>>) \o all_strings(Tail(ss))

get_text(sep, ss) == join(sep, all_strings(ss))

(* parse_description without the list-item branch *)
parse_description_flat(c) == get_text(<<" ">>, c.strings)

parse_description(c) ==
    IF c.items # <<>>
    THEN join(<<";", " ">>,
              [k \in 1..Len(c.items) |-> get_text(<<" ">>, c.items[k])])
    ELSE get_text(<<" ">>, c.strings)

hs_heading(c) == get_text(<<" ">>, c.strings)

tariff_item(th) == get_text(<<>>, th.strings)


---------------------------------------------------------------------------
(* Pages, rows and the Canadian extractor *)

(* an empty response body: BeautifulSoup finds no table in it *)
EmptyHtml == [empty |-> TRUE, table |-> FALSE, tbody |-> FALSE, rows |-> <<>>]
NoTable == [empty |-> FALSE, table |-> FALSE, tbody |-> FALSE, rows |-> <<>>]
NoTbody == [empty |-> FALSE, table |-> TRUE, tbody |-> FALSE, rows |-> <<>>]

Text(ss) == [strings |-> ss, items |-> <<>>]

ThItem == Text(<< <<" ", "9">>, <<"1", " ">> >>)
ThBlank == Text(<< <<" ">> >>)
TdHead == Text(<< <<"h", " ", " ", "s">>, <<"\n">> >>)
TdBlank == Text(<<>>)
TdText == Text(<< <<"d">> >>)
TdList ==
    [strings |-> << <<" ">>, <<"x">>, <<"y", " ">> >>,
     items |-> << <<<<"x">>>>, <<<<"y", " ">>>> >>]

(* a row is row.find('th') (<<>> for None) and row.find_all('td') *)
RowNoTh == [th |-> <<>>, tds |-> <<TdHead, TdText>>]
RowNoTd == [th |-> <<ThItem>>, tds |-> <<>>]
RowOneTd == [th |-> <<ThItem>>, tds |-> <<TdHead>>]
RowPlain == [th |-> <<ThItem>>, tds |-> <<TdHead, TdBlank>>]
RowList == [th |-> <<ThItem>>, tds |-> <<TdText, TdList, TdHead>>]
RowBlank == [th |-> <<ThBlank>>, tds |-> <<TdBlank, TdBlank>>]

RowSamples == {RowNoTh, RowNoTd, RowOneTd, RowPlain, RowList, RowBlank}

Pages ==
    {EmptyHtml, NoTable, NoTbody}
    \cup {[empty |-> FALSE, table |-> TRUE, tbody |-> TRUE, rows |-> rs] :
            rs \in SeqsUpTo(RowSamples, MaxRows)}

(* the loop body with the heading read from the second data cell *)
parse_row_shifted(d, row) ==
    IF row.th = <<>> THEN d
    ELSE IF Len(row.tds) < 2 THEN d
    ELSE Append(d, [tariff_item |-> tariff_item(row.th[1]),
                    hs_heading |-> hs_heading(row.tds[2]),
                    description |-> parse_description(row.tds[2])])

(* the loop body with a missing header cell read as an empty tariff item *)
parse_row_headerless(d, row) ==
    IF Len(row.tds) < 2 THEN d
    ELSE Append(d, [tariff_item |-> IF row.th = <<>> THEN <<>>
                                    ELSE tariff_item(row.th[1]),
                    hs_heading |-> hs_heading(row.tds[1]),
                    description |-> parse_description(row.tds[2])])

(* one pass of the loop body of parse_data *)
parse_row(d, row) ==
    IF row.th = <<>> THEN d
    ELSE IF Len(row.tds) < 2 THEN d
    ELSE Append(d, [tariff_item |-> tariff_item(row.th[1]),
                    hs_heading |-> hs_heading(row.tds[1]),
                    description |-> parse_description(row.tds[2])])

RECURSIVE parse_rows(_, _)
parse_rows(d, rows) ==
    IF rows = <<>> THEN d
    ELSE parse_rows(parse_row(d, Head(rows)), Tail(rows))

(* parse_data as one step: self.data after the call and the flag returned *)
parse_data(d, page) ==
    IF ~page.table THEN [data |-> d, ret |-> FALSE]
    ELSE IF ~page.tbody THEN [data |-> d, ret |-> FALSE]
    ELSE LET d2 == parse_rows(d, page.rows)
         IN  [data |-> d2, ret |-> d2 # <<>>]


---------------------------------------------------------------------------
(* The Dataset: TariffData *)

(* self.df = None *)
NoDf == [none |-> TRUE, rows |-> <<>>]
NoResult == [kind |-> "None"]

(* the scrapers dict of the factory, and a value it has no entry for *)
Registry == {"CANADA", "MEXICO", "CHINA"}
Jurisdictions == Registry \cup {"OTHER"}

(* add_data with the new batch put in front of the table *)
add_data_prepend(d, batch, country, now) ==
    LET new_df == [k \in 1..Len(batch) |->
                      [tariff_item |-> batch[k].tariff_item,
                       hs_heading |-> batch[k].hs_heading,
                       description |-> batch[k].description,
                       Country |-> country,
                       Scrape_Date |-> now]]
    IN  [none |-> FALSE, rows |-> new_df \o d.rows]

add_data(d, batch, country, now) ==
    LET new_df == [k \in 1..Len(batch) |->
                      [tariff_item |-> batch[k].tariff_item,
                       hs_heading |-> batch[k].hs_heading,
                       description |-> batch[k].description,
                       Country |-> country,
                       Scrape_Date |-> now]]
    IN  IF d.none THEN [none |-> FALSE, rows |-> new_df]
        ELSE [none |-> FALSE, rows |-> d.rows \o new_df]

Column(rows, f) == [k \in 1..Len(rows) |-> rows[k][f]]

(* Series.unique(): the distinct values in order of first appearance *)
RECURSIVE unique(_)
unique(xs) ==
    IF xs = <<>> THEN <<>>
    ELSE LET u == unique(SubSeq(xs, 1, Len(xs) - 1))
             x == xs[Len(xs)]
         IN  IF \E k \in 1..Len(u) : u[k] = x THEN u ELSE Append(u, x)

nunique(xs) == Len(unique(xs))

(* groupby(key).size(): the size of each group, one per distinct key *)
groupby_size(xs) ==
    LET u == unique(xs)
    IN  [k \in 1..Len(u) |-> Len(SelectSeq(xs, LAMBDA x : x = u[k]))]

RECURSIVE Sum(_)
Sum(ns) == IF ns = <<>> THEN 0 ELSE Head(ns) + Sum(Tail(ns))

(* Series.mean() of the group sizes, kept as the fraction num / den *)
mean(ns) == [num |-> Sum(ns), den |-> Len(ns)]

(* the per-country statistics with the groups taken over the whole table *)
country_statistics_global(rows, country) ==
    LET country_df == SelectSeq(rows, LAMBDA r : r.Country = country)
    IN  [total_entries |-> Len(country_df),
         unique_hs_headings |-> nunique(Column(country_df, "hs_heading")),
         avg_descriptions_per_heading |->
             mean(groupby_size(Column(rows, "hs_heading")))]

country_statistics(rows, country) ==
    LET country_df == SelectSeq(rows, LAMBDA r : r.Country = country)
    IN  [total_entries |-> Len(country_df),
         unique_hs_headings |-> nunique(Column(country_df, "hs_heading")),
         avg_descriptions_per_heading |->
             mean(groupby_size(Column(country_df, "hs_heading")))]

StatisticsOf(d) ==
    LET countries == unique(Column(d.rows, "Country"))
    IN  [kind |-> "ok",
         total_entries |-> Len(d.rows),
         entries_by_country |->
             [c \in {countries[k] : k \in 1..Len(countries)} |->
                 Len(SelectSeq(d.rows, LAMBDA r : r.Country = c))],
         unique_hs_headings |-> nunique(Column(d.rows, "hs_heading")),
         unique_tariff_items |-> nunique(Column(d.rows, "tariff_item")),
         statistics |->
             [c \in {countries[k] : k \in 1..Len(countries)} |->
                 country_statistics(d.rows, c)]]

(* get_statistics without the check for self.df being None *)
get_statistics_unguarded(d) ==
    IF d.none THEN [kind |-> "TypeError"]
    ELSE IF d.rows = <<>> THEN [kind |-> "KeyError"]
    ELSE StatisticsOf(d)

get_statistics(d) ==
    IF d.none THEN [kind |-> "ValueError"]
    ELSE IF d.rows = <<>> THEN [kind |-> "KeyError"]
    ELSE StatisticsOf(d)


---------------------------------------------------------------------------
(* The factory, the scrapers' scrape() and the collection manager *)

(* what requests.get gives fetch_page: a RequestException, or a body *)
RequestFailed == [kind |-> "request_exception", text |-> EmptyHtml]
Body(page) == [kind |-> "text", text |-> page]

Rows(rs) == [empty |-> FALSE, table |-> TRUE, tbody |-> TRUE, rows |-> rs]

Responses ==
    {RequestFailed}
    \cup {Body(p) : p \in {EmptyHtml, NoTable, NoTbody,
                           Rows(<<RowNoTh, RowOneTd>>),
                           Rows(<<RowPlain>>),
                           Rows(<<RowNoTh, RowList, RowPlain>>)}}

NoTarget == [country |-> "none", response |-> RequestFailed]

(* fetch_page: None on a RequestException, else response.text *)
fetch_page(resp) ==
    IF resp.kind = "request_exception"
    THEN [none |-> TRUE, text |-> EmptyHtml]
    ELSE [none |-> FALSE, text |-> resp.text]

(* create_scraper: the class registered for the country, or a ValueError *)
create_scraper(country) ==
    IF country \in Registry
    THEN [raised |-> "none", scraper |-> country]
    ELSE [raised |-> "ValueError", scraper |-> "none"]

(* parse_data of the scraper class: the Mexican and Chinese ones are stubs *)
scraper_parse_data(scraper, d, page) ==
    IF scraper = "CANADA" THEN parse_data(d, page)
    ELSE [data |-> d, ret |-> FALSE]

(* scrape() on a new instance, whose self.data is empty *)
scrape(scraper, resp) ==
    LET html_content == fetch_page(resp)
    IN  IF html_content.none \/ html_content.text.empty THEN <<>>
        ELSE LET parsed == scraper_parse_data(scraper, <<>>, html_content.text)
             IN  IF parsed.ret THEN parsed.data ELSE <<>>

(* the try block without the test that the scrape returned records *)
scrape_country_try_unguarded(d, now, config) ==
    LET made == create_scraper(config.country)
    IN  IF made.raised # "none"
        THEN [df |-> d, ret |-> FALSE, raised |-> made.raised]
        ELSE [df |-> add_data(d, scrape(made.scraper, config.response),
                              config.country, now),
              ret |-> TRUE, raised |-> "none"]

(* the try block of scrape_country *)
scrape_country_try(d, now, config) ==
    LET made == create_scraper(config.country)
    IN  IF made.raised # "none"
        THEN [df |-> d, ret |-> FALSE, raised |-> made.raised]
        ELSE LET batch == scrape(made.scraper, config.response)
             IN  IF batch # <<>>
                 THEN [df |-> add_data(d, batch, config.country, now),
                       ret |-> TRUE, raised |-> "none"]
                 ELSE [df |-> d, ret |-> FALSE, raised |-> "none"]

(* scrape_country without its except clause *)
scrape_country_uncaught(d, now, config) == scrape_country_try(d, now, config)

(* scrape_country: except Exception logs the error and returns False *)
scrape_country(d, now, config) ==
    LET tried == scrape_country_try(d, now, config)
    IN  IF tried.raised # "none"
        THEN [df |-> d, ret |-> FALSE, raised |-> "none"]
        ELSE tried

(* save_data: io is what the file system does: "ok", "json_error" when
   opening the JSON file fails, "excel_error" for an error raised once the
   JSON file exists; every exception is caught and False returned *)
save_data(d, io) ==
    LET failed(written) ==
            [ret |-> FALSE, raised |-> "none", written |-> written]
    IN  IF d.none THEN failed({})
        ELSE IF get_statistics(d).kind # "ok" THEN failed({})
        ELSE IF io = "json_error" THEN failed({})
        ELSE IF io = "excel_error" THEN failed({"combined_tariff_data.json"})
        ELSE [ret |-> TRUE, raised |-> "none",
              written |-> {"combined_tariff_data.json",
                           "combined_tariff_data.xlsx"}]

---------------------------------------------------------------------------
(* SpecText: the text rules applied to every cell within the bounds *)

RECURSIVE Flatten(_)
Flatten(sss) == IF sss = <<>> THEN <<>> ELSE Head(sss) \o Flatten(Tail(sss))

PlainCells ==
    {[strings |-> ss, items |-> <<>>] : ss \in SeqsUpTo(Strings, MaxNodes)}

(* the text nodes list items are built of: plain, padded, with an inner run *)
ItemStrings == {<<"a">>, <<" ", "a", " ">>, <<"a", " ", " ", "a">>}

ListItems == SeqsUpTo(ItemStrings, MaxNodes)

ListCells ==
    {[strings |-> Flatten(its), items |-> its] :
        its \in SeqsUpTo(ListItems, MaxItems) \ {<<>>}}

TextCells == PlainCells \cup ListCells

TextIdle ==
    /\ cell = [strings |-> <<>>, items |-> <<>>]
    /\ text_op = "none"
    /\ text_out = <<>>

ParseIdle ==
    /\ data = <<>>
    /\ pc = "idle"
    /\ html = EmptyHtml
    /\ row_i = 0
    /\ ret = FALSE
    /\ returned = FALSE
    /\ prev_data = <<>>
    /\ same_html = FALSE

DatasetIdle ==
    /\ df = NoDf
    /\ clock = 0
    /\ calls = <<>>
    /\ op = "none"
    /\ result = NoResult

ManagerIdle ==
    /\ mpc = "scraping"
    /\ target = NoTarget
    /\ results = <<>>
    /\ raised = "none"
    /\ save_ret = FALSE
    /\ files = {}

InitText ==
    /\ cell \in TextCells
    /\ text_op = "none"
    /\ text_out = <<>>
    /\ ParseIdle
    /\ DatasetIdle
    /\ ManagerIdle

ApplyDescription ==
    /\ text_op = "none"
    /\ text_op' = "description"
    /\ text_out' = parse_description(cell)
    /\ UNCHANGED <<cell, parseVars, datasetVars, managerVars>>

ApplyHeading ==
    /\ text_op = "none"
    /\ text_op' = "heading"
    /\ text_out' = hs_heading(cell)
    /\ UNCHANGED <<cell, parseVars, datasetVars, managerVars>>

ApplyTariffItem ==
    /\ text_op = "none"
    /\ text_op' = "item"
    /\ text_out' = tariff_item(cell)
    /\ UNCHANGED <<cell, parseVars, datasetVars, managerVars>>

NextText == ApplyDescription \/ ApplyHeading \/ ApplyTariffItem

SpecText == InitText /\ [][NextText]_vars

---------------------------------------------------------------------------
(* Reference text operations the text claims are stated with *)

NonWs(s) == {k \in 1..Len(s) : s[k] \notin Whitespace}

TrimRef(s) ==
    IF NonWs(s) = {} THEN <<>>
    ELSE LET lo == CHOOSE k \in NonWs(s) : \A j \in NonWs(s) : k <= j
             hi == CHOOSE k \in NonWs(s) : \A j \in NonWs(s) : k >= j
         IN  SubSeq(s, lo, hi)

RECURSIVE SqueezeFrom(_, _)
SqueezeFrom(s, k) ==
    IF k > Len(s) THEN <<>>
    ELSE (IF s[k] \notin Whitespace THEN <<s[k]>>
          ELSE IF k > 1 /\ s[k - 1] \notin Whitespace THEN <<" ">>
          ELSE <<>>) \o SqueezeFrom(s, k + 1)

(* trimmed, every run of whitespace collapsed to one space *)
NormalizeWs(s) == TrimRef(SqueezeFrom(s, 1))

RECURSIVE JoinRef(_, _)
JoinRef(sep, ss) ==
    IF ss = <<>> THEN <<>>
    ELSE JoinRef(sep, SubSeq(ss, 1, Len(ss) - 1))
         \o (IF Len(ss) > 1 THEN sep ELSE <<>>) \o ss[Len(ss)]

(* an element's text: its text nodes trimmed, the blank ones dropped, one
   space between them *)
RefText(ss) ==
    JoinRef(<<" ">>,
            SelectSeq([k \in 1..Len(ss) |-> TrimRef(ss[k])],
                      LAMBDA t : t # <<>>))

RefItems(c) ==
    JoinRef(<<";", " ">>, [k \in 1..Len(c.items) |-> RefText(c.items[k])])

(* no text node has whitespace inside it other than single spaces *)
Tidy(ss) == \A k \in 1..Len(ss) : TrimRef(ss[k]) = NormalizeWs(ss[k])

HasRun(s) ==
    \E k \in 1..(Len(s) - 1) : s[k] \in Whitespace /\ s[k + 1] \in Whitespace

(* C8 as stated: a cell with list items gives the items' texts joined with
   "; "; a cell without gives its text trimmed with every internal run of
   whitespace collapsed to a single space; hs_heading follows the same
   trim-and-collapse rule. *)
C8_CollapsesRuns ==
    /\ (text_op = "description" /\ cell.items # <<>>)
          => text_out = RefItems(cell)
    /\ (text_op = "description" /\ cell.items = <<>>)
          => text_out = NormalizeWs(RefText(cell.strings))
    /\ text_op = "heading"
          => text_out = NormalizeWs(RefText(cell.strings))

(* C8 amended: a cell with list items gives the items' texts joined with
   "; " in document order, a cell without gives its own text, and hs_heading
   is the text of the first data cell, where the text of an element is its
   text nodes, each trimmed, the blank ones dropped, joined by single
   spaces.  Whitespace inside a text node is kept, so the result is the
   trim-and-collapse of the text exactly when no text node has whitespace
   inside it other than single spaces. *)
C8_DescriptionRule ==
    /\ (text_op = "description" /\ cell.items # <<>>)
          => text_out = RefItems(cell)
    /\ (text_op = "description" /\ cell.items = <<>>)
          => /\ text_out = RefText(cell.strings)
             /\ Tidy(cell.strings)
                   <=> text_out = NormalizeWs(JoinRef(<<" ">>, cell.strings))
    /\ text_op = "heading"
          => /\ text_out = RefText(cell.strings)
             /\ Tidy(cell.strings)
                   <=> text_out = NormalizeWs(JoinRef(<<" ">>, cell.strings))

(* C8 witness: the description of a cell without list items, of two text
   nodes, one of them with a run of whitespace inside that the result keeps *)
C8_Witness ==
    /\ text_op = "description"
    /\ cell.items = <<>>
    /\ Len(cell.strings) = 2
    /\ HasRun(text_out)

---------------------------------------------------------------------------
(* SpecParse: parse_data called, any number of times, on extractor
   instances, one row of the body at a time *)

InitParse == TextIdle /\ ParseIdle /\ DatasetIdle /\ ManagerIdle

(* BaseTariffScraper.__init__: a new instance replaces the one in use *)
NewScraper ==
    /\ pc = "idle"
    /\ returned
    /\ data' = <<>>
    /\ html' = EmptyHtml
    /\ row_i' = 0
    /\ ret' = FALSE
    /\ returned' = FALSE
    /\ prev_data' = <<>>
    /\ same_html' = FALSE
    /\ UNCHANGED <<pc, textVars, datasetVars, managerVars>>

(* parse_data up to the loop: the table and tbody lookups *)
ParseBegin ==
    /\ pc = "idle"
    /\ \E page \in Pages :
          /\ Len(data) + Len(page.rows) <= MaxData
          /\ html' = page
          /\ prev_data' = data
          /\ same_html' = (returned /\ page = html)
          /\ IF ~page.table \/ ~page.tbody
             THEN /\ ret' = FALSE
                  /\ returned' = TRUE
                  /\ row_i' = 0
                  /\ UNCHANGED pc
             ELSE /\ pc' = "rows"
                  /\ row_i' = 1
                  /\ UNCHANGED <<ret, returned>>
    /\ UNCHANGED <<data, textVars, datasetVars, managerVars>>

ParseRow ==
    /\ pc = "rows"
    /\ row_i <= Len(html.rows)
    /\ data' = parse_row(data, html.rows[row_i])
    /\ row_i' = row_i + 1
    /\ UNCHANGED <<pc, html, ret, returned, prev_data, same_html, textVars, datasetVars, managerVars>>

ParseReturn ==
    /\ pc = "rows"
    /\ row_i > Len(html.rows)
    /\ ret' = (data # <<>>)
    /\ returned' = TRUE
    /\ pc' = "idle"
    /\ UNCHANGED <<data, html, row_i, prev_data, same_html, textVars, datasetVars, managerVars>>

NextParse == NewScraper \/ ParseBegin \/ ParseRow \/ ParseReturn

SpecParse == InitParse /\ [][NextParse]_vars

---------------------------------------------------------------------------
(* Claims about the extractor *)

(* the records the current call has appended to self.data so far *)
Produced == SubSeq(data, Len(prev_data) + 1, Len(data))

IsDataRow(row) == row.th # <<>> /\ Len(row.tds) >= 2

RecordOf(row) ==
    [tariff_item |-> tariff_item(row.th[1]),
     hs_heading |-> hs_heading(row.tds[1]),
     description |-> parse_description(row.tds[2])]

(* the records of the data rows among rows, in document order *)
RecordsOf(rows) ==
    LET kept == SelectSeq(rows, IsDataRow)
    IN  [k \in 1..Len(kept) |-> RecordOf(kept[k])]

HasText(c) == \E k \in 1..Len(c.strings) : NonWs(c.strings[k]) # {}

(* a Canadian-format table: a table with a body whose data rows carry text
   in the header cell and in the first data cell *)
ValidCanadianTable(page) ==
    /\ page.table
    /\ page.tbody
    /\ \A k \in 1..Len(page.rows) :
          IsDataRow(page.rows[k])
             => HasText(page.rows[k].th[1]) /\ HasText(page.rows[k].tds[1])

(* C5: parse_data called twice with the same page, on the same instance,
   yields the identical record sequence both times. *)
C5_Idempotent ==
    (pc = "idle" /\ returned /\ same_html) => data = prev_data

(* C6: the flag a parse_data call returns is true if and only if that call
   produced at least one record from its page; a page with no table, no
   tbody or only non-data rows returns false whatever was parsed before. *)
C6_SuccessIffProduced ==
    (pc = "idle" /\ returned) => (ret <=> Produced # <<>>)

(* C7: every record the extractor outputs for a valid Canadian-format table
   has a non-empty tariff_item and a non-empty hs_heading. *)
C7_NonEmptyFields ==
    ValidCanadianTable(html)
       => \A k \in 1..Len(Produced) :
             Produced[k].tariff_item # <<>> /\ Produced[k].hs_heading # <<>>

(* C7 witness: a call has returned on a valid table that holds both a
   non-data row and a data row with padded cells, and produced a record *)
C7_Witness ==
    /\ pc = "idle"
    /\ returned
    /\ ValidCanadianTable(html)
    /\ html.rows = <<RowOneTd, RowPlain>>
    /\ Len(Produced) = 1

(* C10: a body row with no header cell, or with zero or one data cell,
   contributes no record and does not stop the loop: every later row is
   examined, and the records produced are exactly those of the rows with a
   header cell and at least two data cells, in document order. *)
C10_RowSkip ==
    /\ pc = "rows"
          => /\ row_i \in 1..(Len(html.rows) + 1)
             /\ Produced = RecordsOf(SubSeq(html.rows, 1, row_i - 1))
    /\ (pc = "idle" /\ returned /\ html.table /\ html.tbody)
          => /\ row_i = Len(html.rows) + 1
             /\ Produced = RecordsOf(html.rows)

(* C10 witness: a call has returned whose body starts with a row without a
   header cell and ends with a data row, which gave the one record *)
C10_Witness ==
    /\ pc = "idle"
    /\ returned
    /\ html.rows = <<RowNoTh, RowList>>
    /\ Len(Produced) = 1

---------------------------------------------------------------------------
(* SpecDataset: add_data and get_statistics called on one TariffData *)

Rec(item, hs) ==
    [tariff_item |-> <<item>>, hs_heading |-> <<"0", hs>>,
     description |-> <<"d">>]

RecSamples == {Rec("1", "1"), Rec("2", "1"), Rec("3", "2")}

Batches == SeqsUpTo(RecSamples, MaxBatch)

InitDataset == TextIdle /\ ParseIdle /\ DatasetIdle /\ ManagerIdle

AddData ==
    /\ Len(calls) < MaxAdds
    /\ \E batch \in Batches, country \in {"CANADA", "MEXICO"} :
          /\ df' = add_data(df, batch, country, clock)
          /\ calls' = Append(calls, [data |-> batch, country |-> country])
    /\ clock' = clock + 1
    /\ op' = "add_data"
    /\ result' = NoResult
    /\ UNCHANGED <<textVars, parseVars, managerVars>>

GetStatistics ==
    /\ op # "get_statistics"
    /\ op' = "get_statistics"
    /\ result' = get_statistics(df)
    /\ UNCHANGED <<df, clock, calls, textVars, parseVars, managerVars>>

NextDataset == AddData \/ GetStatistics

SpecDataset == InitDataset /\ [][NextDataset]_vars

---------------------------------------------------------------------------
(* SpecManager: main's loop over the configs, then save_data; the
   statistics may be asked for at any point *)

InitManager == TextIdle /\ ParseIdle /\ DatasetIdle /\ ManagerIdle

ScrapeCountry ==
    /\ mpc = "scraping"
    /\ Len(results) < MaxTargets
    /\ \E country \in Jurisdictions, resp \in Responses :
          LET config == [country |-> country, response |-> resp]
              r == scrape_country(df, clock, config)
          IN  /\ target' = config
              /\ df' = r.df
              /\ raised' = r.raised
              /\ IF r.raised # "none"
                 THEN mpc' = "crashed" /\ UNCHANGED results
                 ELSE mpc' = "scraping" /\ results' = Append(results, r.ret)
    /\ clock' = clock + 1
    /\ op' = "scrape_country"
    /\ result' = NoResult
    /\ UNCHANGED <<calls, save_ret, files, textVars, parseVars>>

SaveData ==
    /\ mpc = "scraping"
    /\ \E io \in {"ok", "json_error", "excel_error"} :
          LET r == save_data(df, io)
          IN  /\ save_ret' = r.ret
              /\ files' = files \cup r.written
              /\ raised' = r.raised
    /\ mpc' = "saved"
    /\ op' = "save_data"
    /\ result' = NoResult
    /\ UNCHANGED <<df, clock, calls, target, results, textVars, parseVars>>

NextManager == ScrapeCountry \/ SaveData \/ GetStatistics

SpecManager == InitManager /\ [][NextManager]_vars

---------------------------------------------------------------------------
(* Claims about the Dataset *)

Ingest(call) ==
    [k \in 1..Len(call.data) |-> [rec |-> call.data[k], tag |-> call.country]]

(* the batches of the calls, each record with its call's jurisdiction, one
   after the other *)
RECURSIVE Ingested(_)
Ingested(cs) ==
    IF cs = <<>> THEN <<>>
    ELSE Ingested(SubSeq(cs, 1, Len(cs) - 1)) \o Ingest(cs[Len(cs)])

Stored ==
    [k \in 1..Len(df.rows) |->
        [rec |-> [tariff_item |-> df.rows[k].tariff_item,
                  hs_heading |-> df.rows[k].hs_heading,
                  description |-> df.rows[k].description],
         tag |-> df.rows[k].Country]]

(* C4: after any sequence of add_data calls the Dataset is the concatenation,
   in call order, of the batches passed in: every record once per
   occurrence, in its position within its batch, tagged with the
   jurisdiction of its call; earlier records are not reordered, re-tagged
   or removed. *)
C4_Concatenation == Stored = Ingested(calls)

(* C4 witness: two calls gave the same two-record batch under different
   jurisdictions, so the Dataset holds each record twice *)
C4_Witness ==
    /\ Len(calls) = 2
    /\ calls[1].data = calls[2].data
    /\ calls[1].country # calls[2].country
    /\ Len(calls[1].data) = 2
    /\ Len(df.rows) = 4

Present == {df.rows[k].Country : k \in 1..Len(df.rows)}
RowsOf(c) == {k \in 1..Len(df.rows) : df.rows[k].Country = c}
HeadingsOf(c) == {df.rows[k].hs_heading : k \in RowsOf(c)}

RECURSIVE SumOver(_, _)
SumOver(f, S) ==
    IF S = {} THEN 0
    ELSE LET x == CHOOSE x \in S : TRUE IN f[x] + SumOver(f, S \ {x})

(* C9: for a non-empty Dataset get_statistics returns total_entries equal to
   the number of records, entries_by_country whose counts sum to it, the
   numbers of distinct HS headings and tariff items over all records, and
   for each jurisdiction present an avg_descriptions_per_heading equal to
   its record count divided by its count of distinct HS headings; the
   Dataset is left as the add_data calls made it. *)
C9_Statistics ==
    (op = "get_statistics" /\ ~df.none /\ df.rows # <<>>)
       => /\ result.kind = "ok"
          /\ result.total_entries = Len(df.rows)
          /\ DOMAIN result.entries_by_country = Present
          /\ \A c \in Present :
                result.entries_by_country[c] = Cardinality(RowsOf(c))
          /\ SumOver(result.entries_by_country, Present)
                = result.total_entries
          /\ result.unique_hs_headings
                = Cardinality({df.rows[k].hs_heading : k \in 1..Len(df.rows)})
          /\ result.unique_tariff_items
                = Cardinality({df.rows[k].tariff_item : k \in 1..Len(df.rows)})
          /\ DOMAIN result.statistics = Present
          /\ \A c \in Present :
                LET avg == result.statistics[c].avg_descriptions_per_heading
                IN  /\ avg.den > 0
                    /\ avg.num * Cardinality(HeadingsOf(c))
                          = Cardinality(RowsOf(c)) * avg.den
          /\ Stored = Ingested(calls)

(* C9 witness: the statistics of two Canadian records under one heading
   beside two Mexican records under two headings: 2 distinct headings and 3
   distinct items overall, averages 2/1 and 2/2 *)
C9_Witness ==
    /\ op = "get_statistics"
    /\ result.kind = "ok"
    /\ result.total_entries = 4
    /\ result.unique_hs_headings = 2
    /\ result.unique_tariff_items = 3
    /\ Present = {"CANADA", "MEXICO"}
    /\ result.entries_by_country["CANADA"] = 2
    /\ result.statistics["CANADA"].avg_descriptions_per_heading
          = [num |-> 2, den |-> 1]
    /\ result.statistics["MEXICO"].avg_descriptions_per_heading
          = [num |-> 2, den |-> 2]

---------------------------------------------------------------------------
(* Claims about the manager *)

(* the stages at which a registered target fails *)
FailsToScrape(config) ==
    \/ config.response.kind = "request_exception"
    \/ config.response.text.empty
    \/ config.country \in {"MEXICO", "CHINA"}
    \/ /\ config.country = "CANADA"
       /\ \/ ~config.response.text.table
          \/ ~config.response.text.tbody
          \/ RecordsOf(config.response.text.rows) = <<>>

(* a step of main's loop: one scrape_country call *)
ScrapeStep == mpc = "scraping" /\ op' = "scrape_country" /\ clock' # clock

NoneSucceeded == \A k \in 1..Len(results) : ~results[k]

(* C1: a target that fails at any stage (no text fetched, no table or tbody
   found, no records parsed, a Mexican or Chinese stub) leaves the Dataset
   as it was, raises nothing to the caller, and the loop goes on to the
   later targets. *)
C1_FailureContained ==
    [][(ScrapeStep /\ target'.country \in Registry /\ FailsToScrape(target'))
          => /\ df' = df
             /\ raised' = "none"
             /\ mpc' = "scraping"
             /\ results' = Append(results, FALSE)]_vars

(* C1 witness: a failed target between two successful ones, whose batches
   are both in the Dataset *)
C1_Witness ==
    /\ results = <<TRUE, FALSE, TRUE>>
    /\ mpc = "scraping"
    /\ Len(df.rows) = 3

(* C2 as stated: the configuration error of a jurisdiction without a
   registered extractor propagates to the caller of the manager. *)
C2_Propagates ==
    (op = "scrape_country" /\ target.country \notin Registry)
       => raised = "ValueError"

(* C2 amended: the factory raises the configuration error, scrape_country
   catches it like any other failure of the target: it returns False,
   nothing reaches its caller, the Dataset is unchanged and the loop goes
   on. *)
C2_ConfigErrorContained ==
    [][(ScrapeStep /\ target'.country \notin Registry)
          => /\ create_scraper(target'.country).raised = "ValueError"
             /\ raised' = "none"
             /\ df' = df
             /\ mpc' = "scraping"
             /\ results' = Append(results, FALSE)]_vars

(* C2 witness: a target of an unregistered jurisdiction was handled after a
   successful one and the loop is still running *)
C2_Witness ==
    /\ op = "scrape_country"
    /\ target.country = "OTHER"
    /\ results = <<TRUE, FALSE>>
    /\ mpc = "scraping"

(* C3: while no target has succeeded (also with no target at all)
   get_statistics fails with the empty-dataset error, save_data returns False
   without raising and writes neither file; once a target has succeeded
   get_statistics does not fail with the empty-dataset error. *)
C3_EmptyDatasetGuard ==
    /\ (NoneSucceeded /\ op = "get_statistics")
          => result.kind = "ValueError"
    /\ (NoneSucceeded /\ mpc = "saved")
          => ~save_ret /\ raised = "none" /\ files = {}
    /\ (~NoneSucceeded /\ op = "get_statistics")
          => result.kind # "ValueError"

(* C3 witness: a run of two targets, both failed, was saved and the
   statistics then asked for *)
C3_Witness ==
    /\ Len(results) = 2
    /\ NoneSucceeded
    /\ mpc = "saved"
    /\ op = "get_statistics"
    /\ result.kind = "ValueError"

=============================================================================
